---- MODULE Spec2Model ----
(***************************************************************************)
(* Expense ledger bot (src/bot.py): a Telegram bot that keeps expense rows *)
(* in a spreadsheet.  The model covers the sheet (a sequence of rows whose *)
(* first row is the header), the per-user session dictionary user_data     *)
(* that holds the drafts awaiting a category, the handlers add, add_smart,  *)
(* edit and button_callback (category selection), and the start of the     *)
(* process, which initializes the sheet.                                   *)
(***************************************************************************)
EXTENDS Integers, Sequences, FiniteSets, TLC

VARIABLES
    sheet,      \* the spreadsheet: a sequence of rows, each a sequence of 7 cells
    user_data,  \* context.user_data of every user: a dict keyed by 'pending_expense' / 'pending_edit'
    now,        \* the process clock read by datetime.now()
    update,     \* the update the dispatcher has handed to a handler: command, sender, arguments
    reply,      \* what that handler answered
    calls       \* the store call sequence each of two concurrent handler runs is in

vars == <<sheet, user_data, now, update, reply, calls>>

(***************************************************************************)
(* Bounds of the model.                                                    *)
(***************************************************************************)
\* most expense rows the sheet may hold
MaxRows == 2

(***************************************************************************)
(* Conversions: str() of an integer, int() of a cell, float() of a token,  *)
(* str() of a float, ' '.join().                                           *)
(***************************************************************************)
Digits == << "0", "1", "2", "3", "4", "5", "6", "7", "8", "9" >>

RECURSIVE str(_)
str(n) == IF n < 10 THEN Digits[n + 1] ELSE str(n \div 10) \o Digits[(n % 10) + 1]

\* numbers whose decimal form the model may have to read back
IntRange == 0 .. 20

\* the decimal numerals, and the number each one denotes
Numerals == { str(n) : n \in IntRange }

NumeralValue == [ s \in Numerals |-> CHOOSE n \in IntRange : str(n) = s ]

\* int(s) succeeds
is_int(s) == s \in Numerals

int(s) == NumeralValue[s]

\* str(record[k]) of a cell read by get_all_records, which turns a cell that
\* holds a number into that number
cell_str(c) == IF is_int(c) THEN str(int(c)) ELSE c

\* float(token): the tokens "10" and "20" are numbers, anything else raises ValueError
is_float(s) == is_int(s)

float(s) == int(s)

\* str(x) of a float holding a whole number: "10.0"
float_str(x) == str(x) \o ".0"

RECURSIVE join(_)
join(toks) ==
    IF Len(toks) = 0 THEN ""
    ELSE IF Len(toks) = 1 THEN toks[1]
    ELSE toks[1] \o " " \o join(Tail(toks))

(***************************************************************************)
(* Dates and times: datetime values, date.toordinal(), date.weekday(),     *)
(* strftime and strptime.                                                  *)
(***************************************************************************)
datetime(y, mo, d, h, mi, s) ==
    [year |-> y, month |-> mo, day |-> d, hour |-> h, minute |-> mi, second |-> s]

is_leap(y) == y % 4 = 0 /\ (y % 100 # 0 \/ y % 400 = 0)

days_in_month(y, m) ==
    IF m = 2 THEN (IF is_leap(y) THEN 29 ELSE 28)
    ELSE IF m \in { 4, 6, 9, 11 } THEN 30 ELSE 31

RECURSIVE days_before_month(_, _)
days_before_month(y, m) ==
    IF m = 1 THEN 0 ELSE days_before_month(y, m - 1) + days_in_month(y, m - 1)

days_before_year(y) ==
    (y - 1) * 365 + ((y - 1) \div 4) - ((y - 1) \div 100) + ((y - 1) \div 400)

\* date.toordinal(): day 1 is 0001-01-01
toordinal(t) == days_before_year(t.year) + days_before_month(t.year, t.month) + t.day

\* date.weekday(): Monday is 0
weekday(t) == (toordinal(t) + 6) % 7

\* '%02d'
pad2(n) == IF n < 10 THEN "0" \o str(n) ELSE str(n)

\* datetime.now().strftime('%Y-%m-%d %H:%M:%S')
strftime(t) ==
    str(t.year) \o "-" \o pad2(t.month) \o "-" \o pad2(t.day) \o " " \o
    pad2(t.hour) \o ":" \o pad2(t.minute) \o ":" \o pad2(t.second)

\* the days and the times of day the modelled clock passes through: a Sunday
\* that ends a year, and the Monday and the Tuesday after it
ClockDays == { << 2023, 12, 31 >>, << 2024, 1, 1 >>, << 2024, 1, 2 >> }

ClockTimes == { << 0, 0, 0 >>, << 23, 59, 59 >> }

Instants ==
    { datetime(d[1], d[2], d[3], c[1], c[2], c[3]) : d \in ClockDays, c \in ClockTimes }

\* seconds since midnight
time_of_day(t) == (t.hour * 60 + t.minute) * 60 + t.second

\* t1 < t2 for datetimes
earlier(t1, t2) ==
    \/ toordinal(t1) < toordinal(t2)
    \/ toordinal(t1) = toordinal(t2) /\ time_of_day(t1) < time_of_day(t2)

\* the timestamps the sheet may hold, and the datetime each one denotes
Timestamps == { strftime(t) : t \in Instants }

TimestampValue == [ s \in Timestamps |-> CHOOSE t \in Instants : strftime(t) = s ]

\* datetime.strptime(s, '%Y-%m-%d %H:%M:%S')
strptime(s) == TimestampValue[s]

(***************************************************************************)
(* Constants of the program and the input alphabets.                       *)
(***************************************************************************)
\* the words of the twelve labels of EXPENSE_CATEGORIES; every label is an
\* emoji, a space and a name, and the emoji is written here as its shortcode
CategoryWords ==
    << << ":hamburger:", "Food", "&", "Dining" >>, << ":house:", "Housing" >>,
       << ":car:", "Transportation" >>, << ":shopping_bags:", "Shopping" >>,
       << ":pill:", "Healthcare" >>, << ":video_game:", "Entertainment" >>,
       << ":iphone:", "Utilities" >>, << ":books:", "Education" >>,
       << ":airplane:", "Travel" >>, << ":gift:", "Gifts" >>,
       << ":moneybag:", "Income" >>, << ":package:", "Other" >> >>

EXPENSE_CATEGORIES == [ i \in 1..Len(CategoryWords) |-> join(CategoryWords[i]) ]

CategorySet == { EXPENSE_CATEGORIES[i] : i \in 1..Len(EXPENSE_CATEGORIES) }

\* the buttons of get_category_keyboard the modelled users press
Cats == { EXPENSE_CATEGORIES[1], EXPENSE_CATEGORIES[2] }

\* the label the modelled users type after a command: context.args is the
\* message split on whitespace, so a typed label arrives as its words
TypedCategory == CategoryWords[2]

headers == << "id", "user_id", "username", "amount", "note", "category", "timestamp" >>

\* Telegram user ids of the two modelled users
Users == { 7, 8 }

first_name == [ u \in Users |-> IF u = 7 THEN "An" ELSE "Binh" ]

(***************************************************************************)
(* Python dictionaries as functions with a changing domain.                *)
(***************************************************************************)
DictSet(d, k, v) == [ x \in (DOMAIN d) \cup {k} |-> IF x = k THEN v ELSE d[x] ]

DictDel(d, k) == [ x \in (DOMAIN d) \ {k} |-> d[x] ]

EmptyDict == [ x \in {} |-> "" ]

(***************************************************************************)
(* The sheet.                                                              *)
(***************************************************************************)
\* gspread get_all_records(): the rows after the first, each a dict keyed by the first row
get_all_records(sh) ==
    IF Len(sh) = 0 THEN << >>
    ELSE [ i \in 1 .. (Len(sh) - 1) |->
             [ k \in { sh[1][j] : j \in 1..Len(sh[1]) } |->
                 sh[i + 1][CHOOSE j \in 1..Len(sh[1]) : sh[1][j] = k] ] ]

append_row(sh, row) == Append(sh, row)

update_cell(sh, r, c, v) == [ sh EXCEPT ![r][c] = v ]

initialize_sheet(sh) ==
    IF Len(get_all_records(sh)) = 0 THEN append_row(sh, headers) ELSE sh

Max(S) == CHOOSE m \in S : \A x \in S : x <= m

get_next_id(sh) ==
    LET records == get_all_records(sh)
    IN  IF Len(records) = 0 \/ Len(records) <= 1 THEN 1
        ELSE Max({ int(records[i]["id"]) : i \in 2..Len(records) }) + 1

add_expense_to_sheet(sh, user_id, username, amount, note, category, t) ==
    append_row(sh, << str(get_next_id(sh)), str(user_id), username,
                      float_str(amount), note, category, strftime(t) >>)

NoUpdate == [op |-> "none"]

\* no store call sequence in flight
Idle == [op |-> "idle"]

Init ==
    /\ sheet = initialize_sheet(<< >>)
    /\ user_data = [ u \in Users |-> EmptyDict ]
    /\ now = datetime(2023, 12, 31, 0, 0, 0)
    /\ update = NoUpdate
    /\ reply = "none"
    /\ calls = [ w \in Users |-> Idle ]

(***************************************************************************)
(* Inputs of the handlers.                                                 *)
(***************************************************************************)
\* where the handler's I/O fails: nowhere, in its first call to the store
\* (nothing is written), or in the reply_text call that reports the result
Faults == { "none", "store", "reply" }

store_fails(f) == f = "store"

\* context.args of /add: <amount> <note> [category]
AddArgs ==
    { << "10" >>, << "abc", "lunch" >>, << "10", "lunch" >>,
      << "10", "lunch" >> \o TypedCategory }

IdToks == { str(i) : i \in 1..MaxRows }

\* context.args of /edit: <id> <amount> <note> [category]
EditArgs ==
    { << "1", "20" >>, << "1", "abc", "taxi" >> }
    \cup { << i, "20", "taxi" >> : i \in IdToks }
    \cup { << i, "20", "taxi" >> \o TypedCategory : i \in IdToks }

\* what the text-generation service answers to /addsmart: a JSON object with
\* the three keys, text that is not JSON, an object that lacks a key, or a
\* failure of the call itself (generate_content raises, with the text given)
SmartResponses ==
    { [kind |-> "object", amount |-> "20", note |-> "taxi", category |-> c] :
          c \in { EXPENSE_CATEGORIES[1], "Food" } }
    \cup { [kind |-> "object", amount |-> "abc", note |-> "taxi", category |-> "Food"] }
    \cup { [kind |-> k] : k \in { "malformed", "missing_key" } }
    \cup { [kind |-> "call_failed", text |-> "429 quota exceeded"] }

\* the rows the handlers wrote: the rows after the first that are no header row
ExpenseRows == { r \in 2..Len(sheet) : sheet[r] # headers }

DataRows == Cardinality(ExpenseRows)

(***************************************************************************)
(* /add and /addsmart.                                                     *)
(***************************************************************************)
add_note(args) ==
    IF Len(args) > 2 THEN join(SubSeq(args, 2, Len(args) - 1)) ELSE args[2]

add_has_category(args) == Len(args) > 2 /\ args[Len(args)] \in CategorySet

\* a slip: the draft kept in one slot shared by all users
add_shared_slot(u, args, f) ==
    IF Len(args) < 2 THEN
        /\ reply' = "InvalidSyntax"
        /\ UNCHANGED <<sheet, user_data, now>>
    ELSE IF ~is_float(args[1]) THEN
        /\ reply' = "InvalidAmount"
        /\ UNCHANGED <<sheet, user_data, now>>
    ELSE IF ~add_has_category(args) THEN
        /\ user_data' = [ v \in Users |->
               DictSet(user_data[v], "pending_expense",
                       [amount |-> float(args[1]), note |-> add_note(args)]) ]
        /\ reply' = "SelectCategory"
        /\ UNCHANGED <<sheet, now>>
    ELSE IF store_fails(f) THEN
        /\ reply' = "Raised"
        /\ UNCHANGED <<sheet, user_data, now>>
    ELSE
        /\ DataRows < MaxRows
        /\ sheet' = add_expense_to_sheet(sheet, u, first_name[u], float(args[1]),
                                         add_note(args), args[Len(args)], now)
        /\ reply' = "Added"
        /\ UNCHANGED <<user_data, now>>

add(u, args, f) ==
    IF Len(args) < 2 THEN
        /\ reply' = "InvalidSyntax"
        /\ UNCHANGED <<sheet, user_data, now>>
    ELSE IF ~is_float(args[1]) THEN
        /\ reply' = "InvalidAmount"
        /\ UNCHANGED <<sheet, user_data, now>>
    ELSE IF ~add_has_category(args) THEN
        /\ user_data' = [ user_data EXCEPT ![u] =
               DictSet(@, "pending_expense",
                       [amount |-> float(args[1]), note |-> add_note(args)]) ]
        /\ reply' = "SelectCategory"
        /\ UNCHANGED <<sheet, now>>
    ELSE IF store_fails(f) THEN
        /\ reply' = "Raised"
        /\ UNCHANGED <<sheet, user_data, now>>
    ELSE
        /\ DataRows < MaxRows
        /\ sheet' = add_expense_to_sheet(sheet, u, first_name[u], float(args[1]),
                                         add_note(args), args[Len(args)], now)
        /\ reply' = "Added"
        /\ UNCHANGED <<user_data, now>>

\* the outcome of parse_expense_with_gemini: the triple, or the message of the
\* exception it ends with; line 135 is outside the try, so a failure of the
\* call leaves with its own message
parse_expense_with_gemini(resp) ==
    IF resp.kind = "call_failed" THEN [ok |-> FALSE, error |-> resp.text]
    ELSE IF resp.kind = "malformed" THEN [ok |-> FALSE, error |-> "ParseFailed"]
    ELSE IF resp.kind = "missing_key" THEN [ok |-> FALSE, error |-> "ParseFailed"]
    ELSE IF ~is_float(resp.amount) THEN [ok |-> FALSE, error |-> "Unexpected"]
    ELSE [ok |-> TRUE, amount |-> float(resp.amount), note |-> resp.note,
          category |-> resp.category]

add_smart(u, has_args, resp, f) ==
    IF ~has_args THEN
        /\ reply' = "SmartUsage"
        /\ UNCHANGED <<sheet, user_data, now>>
    ELSE LET p == parse_expense_with_gemini(resp)
         IN  IF ~p.ok THEN
                 /\ reply' = p.error
                 /\ UNCHANGED <<sheet, user_data, now>>
             ELSE IF store_fails(f) THEN
                 /\ reply' = "StoreError"
                 /\ UNCHANGED <<sheet, user_data, now>>
             ELSE
                 /\ DataRows < MaxRows
                 /\ sheet' = add_expense_to_sheet(sheet, u, first_name[u], p.amount,
                                                  p.note, p.category, now)
                 /\ reply' = "Added"
                 /\ UNCHANGED <<user_data, now>>

(***************************************************************************)
(* /edit.                                                                  *)
(***************************************************************************)
\* index in get_all_records of the first record with the id, 0 when there is none
find_by_id(sh, expense_id) ==
    LET records == get_all_records(sh)
        hits == { i \in 1..Len(records) : cell_str(records[i]["id"]) = expense_id }
    IN  IF hits = {} THEN 0 ELSE CHOOSE i \in hits : \A j \in hits : i <= j

\* a slip: the loop keeps the last record with the id, while update_expense
\* writes the first
get_expense_by_id_last(sh, expense_id) ==
    LET records == get_all_records(sh)
        hits == { i \in 1..Len(records) : cell_str(records[i]["id"]) = expense_id }
    IN  records[CHOOSE i \in hits : \A j \in hits : i >= j]

get_expense_by_id(sh, expense_id) == get_all_records(sh)[find_by_id(sh, expense_id)]

\* a slip: enumerate(records, start=1), so the write lands one row too high
update_expense_row_above(sh, expense_id, amount, note, category) ==
    LET i == find_by_id(sh, expense_id)
        idx == i
    IN  IF i = 0 THEN sh
        ELSE update_cell(update_cell(update_cell(sh, idx, 4, float_str(amount)),
                                     idx, 5, note),
                         idx, 6, category)

\* the sheet after update_expense
update_expense(sh, expense_id, amount, note, category) ==
    LET i == find_by_id(sh, expense_id)
        idx == i + 1
    IN  IF i = 0 THEN sh
        ELSE update_cell(update_cell(update_cell(sh, idx, 4, float_str(amount)),
                                     idx, 5, note),
                         idx, 6, category)

\* its return value
update_expense_found(sh, expense_id) == find_by_id(sh, expense_id) # 0

edit_note(args) ==
    IF Len(args) > 3 THEN join(SubSeq(args, 3, Len(args) - 1)) ELSE args[3]

edit_has_category(args) == Len(args) > 3 /\ args[Len(args)] \in CategorySet

\* a slip: the ownership check passes for everybody
is_owner_anyone(expense, u) == TRUE

is_owner(expense, u) == cell_str(expense["user_id"]) = str(u)

edit(u, args, f) ==
    IF Len(args) < 3 THEN
        /\ reply' = "InvalidSyntax"
        /\ UNCHANGED <<sheet, user_data, now>>
    ELSE IF ~is_float(args[2]) THEN
        /\ reply' = "InvalidAmount"
        /\ UNCHANGED <<sheet, user_data, now>>
    ELSE IF store_fails(f) THEN
        /\ reply' = "StoreError"
        /\ UNCHANGED <<sheet, user_data, now>>
    ELSE IF find_by_id(sheet, args[1]) = 0 THEN
        /\ reply' = "NotFound"
        /\ UNCHANGED <<sheet, user_data, now>>
    ELSE IF ~is_owner(get_expense_by_id(sheet, args[1]), u) THEN
        /\ reply' = "NotOwner"
        /\ UNCHANGED <<sheet, user_data, now>>
    ELSE IF ~edit_has_category(args) THEN
        /\ user_data' = [ user_data EXCEPT ![u] =
               DictSet(@, "pending_edit",
                       [expense_id |-> args[1], amount |-> float(args[2]),
                        note |-> edit_note(args),
                        current_category |->
                            get_expense_by_id(sheet, args[1])["category"]]) ]
        /\ reply' = "SelectCategory"
        /\ UNCHANGED <<sheet, now>>
    ELSE
        /\ sheet' = update_expense(sheet, args[1], float(args[2]), edit_note(args),
                                   args[Len(args)])
        /\ reply' = IF update_expense_found(sheet, args[1]) THEN "Updated"
                    ELSE "UpdateFailed"
        /\ UNCHANGED <<user_data, now>>

(***************************************************************************)
(* button_callback with data 'category_<c>'.                               *)
(***************************************************************************)
\* lines 287-305: the selection completes a pending /add
commit_pending_expense(u, category, f) ==
    LET pending_expense == user_data[u]["pending_expense"]
    IN  IF store_fails(f) THEN
            /\ reply' = "Raised"
            /\ UNCHANGED <<sheet, user_data, now>>
        ELSE
            /\ DataRows < MaxRows
            /\ sheet' = add_expense_to_sheet(sheet, u, first_name[u],
                            pending_expense.amount, pending_expense.note, category, now)
            /\ user_data' = [ user_data EXCEPT ![u] = DictDel(@, "pending_expense") ]
            /\ reply' = IF f = "reply" THEN "Raised" ELSE "Added"
            /\ UNCHANGED now

\* lines 308-323: the selection completes a pending /edit
commit_pending_edit(u, category, f) ==
    LET pending_edit == user_data[u]["pending_edit"]
    IN  IF store_fails(f) THEN
            /\ reply' = "Raised"
            /\ UNCHANGED <<sheet, user_data, now>>
        ELSE
            /\ sheet' = update_expense(sheet, pending_edit.expense_id,
                            pending_edit.amount, pending_edit.note, category)
            /\ reply' = IF f = "reply" THEN "Raised"
                        ELSE IF update_expense_found(sheet, pending_edit.expense_id)
                        THEN "Updated" ELSE "UpdateFailed"
            /\ user_data' = IF f = "reply" THEN user_data
                            ELSE [ user_data EXCEPT ![u] = DictDel(@, "pending_edit") ]
            /\ UNCHANGED now

\* a slip: the del of the edit branch dedented, so that it runs here too and
\* raises KeyError
no_pending_operation_del(u) ==
    /\ reply' = "Raised"
    /\ UNCHANGED <<sheet, user_data, now>>

\* lines 324-325: nothing is pending
no_pending_operation(u) ==
    /\ reply' = "NoPending"
    /\ UNCHANGED <<sheet, user_data, now>>

button_callback(u, category, f) ==
    IF "pending_expense" \in DOMAIN user_data[u] THEN commit_pending_expense(u, category, f)
    ELSE IF "pending_edit" \in DOMAIN user_data[u] THEN commit_pending_edit(u, category, f)
    ELSE no_pending_operation(u)

(***************************************************************************)
(* Queries: /list and /total with their time filters, and the buttons      *)
(* 'list_expenses' and 'total' of the main menu.                           *)
(***************************************************************************)
\* float(item['amount']) of an amount cell, which str(amount) wrote
AmountCells == { float_str(n) : n \in IntRange }

AmountValue == [ c \in AmountCells |-> CHOOSE n \in IntRange : float_str(n) = c ]

cell_float(c) == AmountValue[c]

RECURSIVE sum(_)
sum(xs) == IF Len(xs) = 0 THEN 0 ELSE Head(xs) + sum(Tail(xs))

\* a slip: the comparison with the caller's id left out
owned_by_anyone(rec, user_id) == TRUE

\* str(rec['user_id']) == str(user_id)
owned_by(rec, user_id) == cell_str(rec["user_id"]) = str(user_id)

get_all_expenses(sh, user_id) ==
    SelectSeq(get_all_records(sh), LAMBDA rec : owned_by(rec, user_id))

\* a slip: the week counted from Sunday
week_start_sunday(t) == toordinal(t) - weekday(t) - 1

\* the day of (now - timedelta(days=now.weekday())).date()
week_start(t) == toordinal(t) - weekday(t)

\* a slip: 'today' takes every record up to the current date
same_date_or_earlier(expense_time, t) == toordinal(expense_time) <= toordinal(t)

\* expense_time.date() == now.date()
same_date(expense_time, t) == toordinal(expense_time) = toordinal(t)

get_expenses_by_time_range(sh, user_id, time_range, t) ==
    SelectSeq(get_all_expenses(sh, user_id),
              LAMBDA expense :
                  LET expense_time == strptime(expense["timestamp"])
                  IN  IF time_range = "today" THEN same_date(expense_time, t)
                      ELSE IF time_range = "week"
                           THEN toordinal(expense_time) >= week_start(t)
                      ELSE IF time_range = "month"
                           THEN expense_time.month = t.month /\ expense_time.year = t.year
                      ELSE FALSE)

\* the years the date filters of the model name
Years == { 2023, 2024 }

\* what the directives %d, %m and %Y of strptime accept, and the number read
DayNumerals == { str(n) : n \in 1..31 } \cup { pad2(n) : n \in 1..31 }

MonthNumerals == { str(n) : n \in 1..12 } \cup { pad2(n) : n \in 1..12 }

YearNumerals == { str(y) : y \in Years }

DayMonthValue == [ x \in DayNumerals |-> CHOOSE n \in 1..31 : x \in { str(n), pad2(n) } ]

YearValue == [ x \in YearNumerals |-> CHOOSE y \in Years : str(y) = x ]

\* datetime.strptime(date_str, '%d/%m/%Y') of the text whose parts between
\* the slashes are given: the datetime, or the ValueError
strptime_date(parts) ==
    IF /\ Len(parts) = 3
       /\ parts[1] \in DayNumerals
       /\ parts[2] \in MonthNumerals
       /\ parts[3] \in YearNumerals
       /\ DayMonthValue[parts[1]] <=
              days_in_month(YearValue[parts[3]], DayMonthValue[parts[2]])
    THEN [ok |-> TRUE,
          value |-> datetime(YearValue[parts[3]], DayMonthValue[parts[2]],
                             DayMonthValue[parts[1]], 0, 0, 0)]
    ELSE [ok |-> FALSE]

\* datetime.strptime(month_str, '%m/%Y')
strptime_month(parts) ==
    IF /\ Len(parts) = 2
       /\ parts[1] \in MonthNumerals
       /\ parts[2] \in YearNumerals
    THEN [ok |-> TRUE,
          value |-> datetime(YearValue[parts[2]], DayMonthValue[parts[1]], 1, 0, 0, 0)]
    ELSE [ok |-> FALSE]

\* a slip: the ValueError of strptime is not caught
get_expenses_by_date_raises(sh, user_id, parts) ==
    LET target_date == strptime_date(parts)
    IN  IF ~target_date.ok THEN "Raised"
        ELSE SelectSeq(get_all_expenses(sh, user_id),
                       LAMBDA expense :
                           same_date(strptime(expense["timestamp"]), target_date.value))

get_expenses_by_date(sh, user_id, parts) ==
    LET target_date == strptime_date(parts)
    IN  IF ~target_date.ok THEN << >>
        ELSE SelectSeq(get_all_expenses(sh, user_id),
                       LAMBDA expense :
                           same_date(strptime(expense["timestamp"]), target_date.value))

get_expenses_by_month(sh, user_id, parts) ==
    LET target_date == strptime_month(parts)
    IN  IF ~target_date.ok THEN << >>
        ELSE SelectSeq(get_all_expenses(sh, user_id),
                       LAMBDA expense :
                           LET expense_time == strptime(expense["timestamp"])
                           IN  /\ expense_time.month = target_date.value.month
                               /\ expense_time.year = target_date.value.year)

\* the line of the reply for a record
item_line(item) ==
    << cell_str(item["id"]), item["amount"], item["note"], item["category"] >>

item_lines(expenses) == [ i \in 1..Len(expenses) |-> item_line(expenses[i]) ]

total_amount(expenses) ==
    sum([ i \in 1..Len(expenses) |-> cell_float(expenses[i]["amount"]) ])

\* str.lower() of the filters the model sends
lower(x) == IF x = "Week" THEN "week" ELSE x

\* the argument of /list and /total: the text of the first token, given by
\* its parts between the slashes
time_filter_of(args) == [ i \in 1..Len(args[1]) |-> lower(args[1][i]) ]

\* the records the filter selects, or "invalid" / "none" where the handler
\* answers with the usage text or not at all
selected_expenses(u, time_filter) ==
    IF Len(time_filter) = 1 /\ time_filter[1] \in { "today", "week", "month" }
    THEN get_expenses_by_time_range(sheet, u, time_filter[1], now)
    ELSE IF Len(time_filter) = 2 THEN get_expenses_by_month(sheet, u, time_filter)
    ELSE IF Len(time_filter) = 3 THEN get_expenses_by_date(sheet, u, time_filter)
    ELSE IF Len(time_filter) > 3 THEN "none"
    ELSE "invalid"

list_expenses(u, args) ==
    /\ reply' =
          IF Len(args) = 0
          THEN LET expenses == get_all_expenses(sheet, u)
               IN  IF Len(expenses) = 0 THEN [kind |-> "NoExpensesYet"]
                   ELSE [kind |-> "Expenses", items |-> item_lines(expenses)]
          ELSE LET time_filter == time_filter_of(args)
                   expenses == selected_expenses(u, time_filter)
               IN  IF expenses = "invalid" THEN [kind |-> "InvalidTimeFilter"]
                   ELSE IF expenses = "none" THEN [kind |-> "NoReply"]
                   ELSE IF expenses = "Raised" THEN [kind |-> "Raised"]
                   ELSE IF Len(expenses) = 0
                        THEN [kind |-> "NoExpensesFor", time_filter |-> time_filter]
                   ELSE [kind |-> "ExpensesFor", time_filter |-> time_filter,
                         items |-> item_lines(expenses)]
    /\ UNCHANGED <<sheet, user_data, now>>

total(u, args) ==
    /\ reply' =
          IF Len(args) = 0
          THEN [kind |-> "TotalAllTime",
                total_amount |-> total_amount(get_all_expenses(sheet, u))]
          ELSE LET time_filter == time_filter_of(args)
                   expenses == selected_expenses(u, time_filter)
               IN  IF expenses = "invalid" THEN [kind |-> "InvalidTimeFilter"]
                   ELSE IF expenses = "none" THEN [kind |-> "NoReply"]
                   ELSE IF expenses = "Raised" THEN [kind |-> "Raised"]
                   ELSE [kind |-> "TotalFor", time_filter |-> time_filter,
                         total_amount |-> total_amount(expenses)]
    /\ UNCHANGED <<sheet, user_data, now>>

\* button_callback with data 'list_expenses' or 'total' (lines 262-274)
menu_button(u, data) ==
    /\ reply' =
          LET expenses == get_all_expenses(sheet, u)
          IN  IF data = "list_expenses"
              THEN IF Len(expenses) = 0 THEN [kind |-> "NoExpensesYet"]
                   ELSE [kind |-> "Expenses", items |-> item_lines(expenses)]
              ELSE [kind |-> "Total", total_amount |-> total_amount(expenses)]
    /\ UNCHANGED <<sheet, user_data, now>>

\* the first token of /list and /total the modelled users send
TimeFilters ==
    { << "today" >>, << "week" >>, << "Week" >>, << "month" >>, << "yesterday" >>,
      << "31", "12", "2023" >>, << "1", "1", "2024" >>, << "15", "01", "2024" >>,
      << "32", "01", "2024" >>, << "01", "2024" >>, << "02", "2024" >>,
      << "13", "2024" >>, << "01", "01", "2024", "" >> }

QueryArgs == { << >> } \cup { << x >> : x \in TimeFilters }

(***************************************************************************)
(* The dispatcher: one update at a time.  It hands an update to its        *)
(* handler when the previous handler has returned.                         *)
(***************************************************************************)
Ready == update = NoUpdate

\* f ranges over the faults that change what the handler does on its path
Add ==
    /\ Ready
    /\ UNCHANGED calls
    /\ \E u \in Users, args \in AddArgs :
        \E f \in IF add_has_category(args) THEN { "none", "store" } ELSE { "none" } :
            /\ add(u, args, f)
            /\ update' = [op |-> "add", u |-> u, args |-> args, f |-> f]

AddSmart ==
    /\ Ready
    /\ UNCHANGED calls
    /\ \E u \in Users, has_args \in BOOLEAN, resp \in SmartResponses :
        \E f \in IF has_args /\ parse_expense_with_gemini(resp).ok THEN { "none", "store" }
                 ELSE { "none" } :
            /\ has_args \/ resp.kind = "malformed"
            /\ add_smart(u, has_args, resp, f)
            /\ update' = [op |-> "addsmart", u |-> u, has_args |-> has_args,
                          resp |-> resp, f |-> f]

Edit ==
    /\ Ready
    /\ UNCHANGED calls
    /\ \E u \in Users, args \in EditArgs :
        \E f \in IF edit_has_category(args) THEN { "none", "store" } ELSE { "none" } :
            /\ edit(u, args, f)
            /\ update' = [op |-> "edit", u |-> u, args |-> args, f |-> f]

ButtonCallback ==
    /\ Ready
    /\ UNCHANGED calls
    /\ \E u \in Users, c \in Cats :
        \E f \in IF DOMAIN user_data[u] = {} THEN { "none" } ELSE Faults :
            /\ button_callback(u, c, f)
            /\ update' = [op |-> "category", u |-> u, category |-> c, f |-> f]

ListExpenses ==
    /\ Ready
    /\ UNCHANGED calls
    /\ \E u \in Users, args \in QueryArgs :
        /\ list_expenses(u, args)
        /\ update' = [op |-> "list", u |-> u, args |-> args]

Total ==
    /\ Ready
    /\ UNCHANGED calls
    /\ \E u \in Users, args \in QueryArgs :
        /\ total(u, args)
        /\ update' = [op |-> "total", u |-> u, args |-> args]

MenuButton ==
    /\ Ready
    /\ UNCHANGED calls
    /\ \E u \in Users, data \in { "list_expenses", "total" } :
        /\ menu_button(u, data)
        /\ update' = [op |-> "menu", u |-> u, data |-> data]

\* time passes between two updates
Tick ==
    /\ Ready
    /\ UNCHANGED calls
    /\ \E t \in Instants :
        /\ earlier(now, t)
        /\ now' = t
    /\ UNCHANGED <<sheet, user_data, update, reply>>

\* the process is started again between two updates: the module is loaded
\* (line 80 runs initialize_sheet) and the session dictionaries, which live
\* in memory, start empty
Startup ==
    /\ Ready
    /\ UNCHANGED calls
    /\ sheet' = initialize_sheet(sheet)
    /\ user_data' = [ u \in Users |-> EmptyDict ]
    /\ UNCHANGED <<now, update, reply>>

\* the handler has returned; the dispatcher turns to the next update
NextUpdate ==
    /\ ~Ready
    /\ UNCHANGED calls
    /\ update' = NoUpdate
    /\ reply' = "none"
    /\ UNCHANGED <<sheet, user_data, now>>

Next ==
    Add \/ AddSmart \/ Edit \/ ButtonCallback \/ MenuButton \/ NextUpdate \/ Startup

Spec == Init /\ [][Next]_vars

\* the ledger under the clock: records are added as time passes and queried
\* with every filter
NextQuery == Tick \/ Add \/ AddSmart \/ ListExpenses \/ Total \/ NextUpdate

SpecQuery == Init /\ [][NextQuery]_vars

(***************************************************************************)
(* The store calls of two handler runs that are in flight at once (two     *)
(* instances of the process on one sheet).  add_expense_to_sheet is a scan *)
(* (get_next_id) and an append_row; update_expense is a scan and three     *)
(* update_cell calls.  Each is one request to the sheet, and requests of   *)
(* the two runs arrive in any order.                                       *)
(***************************************************************************)
\* what the run of a user adds and writes
race_amount(w) == IF w = 7 THEN 10 ELSE 20

race_note(w) == IF w = 7 THEN "lunch" ELSE "taxi"

race_category(w) == IF w = 7 THEN EXPENSE_CATEGORIES[1] ELSE EXPENSE_CATEGORIES[2]

\* the adds in flight
adds_in_flight == Cardinality({ w \in Users : calls[w].op = "add" })

\* a slip-free variant: the id taken from the sheet at the moment of the append
allocated_id_at_append(call, sh) == get_next_id(sh)

\* the id add_expense_to_sheet appends: the one its scan returned
allocated_id(call, sh) == call.next_id

\* a slip: the row counted from the end of the sheet
write_row_from_end(call, sh) == Len(sh) - (Len(call.records) + 1 - call.idx)

\* the row update_expense writes: the position its scan found
write_row(call, sh) == call.idx

\* lines 74-75: the clock is read and get_next_id scans the sheet
AddScan(w) ==
    /\ calls[w] = Idle
    /\ DataRows + adds_in_flight < MaxRows
    /\ calls' = [ calls EXCEPT ![w] =
           [op |-> "add", records |-> get_all_records(sheet),
            next_id |-> get_next_id(sheet), current_time |-> strftime(now)] ]
    /\ UNCHANGED <<sheet, user_data, now, update, reply>>

\* line 76: append_row
AddAppend(w) ==
    /\ calls[w].op = "add"
    /\ sheet' = append_row(sheet, << str(allocated_id(calls[w], sheet)), str(w),
                                     first_name[w], float_str(race_amount(w)),
                                     race_note(w), race_category(w),
                                     calls[w].current_time >>)
    /\ calls' = [ calls EXCEPT ![w] =
           [op |-> "added", records |-> calls[w].records, row |-> Len(sheet) + 1] ]
    /\ UNCHANGED <<user_data, now, update, reply>>

\* lines 230-232: update_expense scans for the id; without a match it returns
UpdateScan(w, expense_id) ==
    /\ calls[w] = Idle
    /\ calls' = [ calls EXCEPT ![w] =
           IF find_by_id(sheet, expense_id) = 0 THEN Idle
           ELSE [op |-> "update", records |-> get_all_records(sheet),
                 expense_id |-> expense_id, idx |-> find_by_id(sheet, expense_id) + 1,
                 column |-> 4, sheet_grew |-> FALSE] ]
    /\ UNCHANGED <<sheet, user_data, now, update, reply>>

\* lines 233-238: the next of the three update_cell calls
UpdateWrite(w) ==
    /\ calls[w].op = "update"
    /\ sheet' = update_cell(sheet, write_row(calls[w], sheet), calls[w].column,
                            IF calls[w].column = 4 THEN float_str(race_amount(w))
                            ELSE IF calls[w].column = 5 THEN race_note(w)
                            ELSE race_category(w))
    /\ calls' = [ calls EXCEPT ![w] =
           IF calls[w].column = 6
           THEN [op |-> "updated", records |-> calls[w].records,
                 expense_id |-> calls[w].expense_id, idx |-> calls[w].idx,
                 sheet_grew |-> Len(sheet) > Len(calls[w].records) + 1]
           ELSE [ calls[w] EXCEPT !.column = @ + 1,
                                  !.sheet_grew = Len(sheet) > Len(calls[w].records) + 1 ] ]
    /\ UNCHANGED <<user_data, now, update, reply>>

\* the handler run ends
Return(w) ==
    /\ calls[w].op \in { "added", "updated" }
    /\ calls' = [ calls EXCEPT ![w] = Idle ]
    /\ UNCHANGED <<sheet, user_data, now, update, reply>>

StoreAddScan == \E w \in Users : AddScan(w)

StoreAddAppend == \E w \in Users : AddAppend(w)

StoreUpdateScan == \E w \in Users, expense_id \in IdToks : UpdateScan(w, expense_id)

StoreUpdateWrite == \E w \in Users : UpdateWrite(w)

StoreReturn == \E w \in Users : Return(w)

NextRace ==
    StoreAddScan \/ StoreAddAppend \/ StoreUpdateScan \/ StoreUpdateWrite
        \/ StoreReturn \/ Startup

SpecRace == Init /\ [][NextRace]_vars

(***************************************************************************)
(* Properties.  A step that runs a handler records the update it handled   *)
(* in update', so the properties read the inputs there and the state       *)
(* before the handler in the unprimed variables.                           *)
(***************************************************************************)
\* the ids of the expense records present in the ledger
PresentIds == { int(sheet[r][1]) : r \in ExpenseRows }

\* the keys of the pending state a user holds
Drafts(u) == DOMAIN user_data[u]

DraftsAfter(u) == DOMAIN user_data'[u]

\* C1: every appended record gets id 1 + the largest id present when it is
\* allocated (1 in a ledger without records), so the ids increase by exactly
\* one and never repeat.
C1_NextIdIsMaxPlusOne ==
    [][ (update'.op \in { "add", "addsmart", "category" } /\ Len(sheet') = Len(sheet) + 1)
        => int(sheet'[Len(sheet')][1]) =
                IF PresentIds = {} THEN 1 ELSE Max(PresentIds) + 1 ]_vars

\* C2: an edit of an existing id by a user who is not the owner of the record
\* found for it is answered with the authorization error and changes neither
\* the sheet nor anybody's pending state, with or without a category.
C2_NonOwnerEditRejected ==
    [][ ( /\ update'.op = "edit"
          /\ update'.f = "none"
          /\ Len(update'.args) >= 3
          /\ is_float(update'.args[2])
          /\ find_by_id(sheet, update'.args[1]) # 0
          /\ get_expense_by_id(sheet, update'.args[1])["user_id"] # str(update'.u) )
        => /\ reply' = "NotOwner"
           /\ sheet' = sheet
           /\ user_data' = user_data ]_vars

\* a non-owner who typed a category was turned away while a draft is waiting
C2_Witness ==
    /\ update.op = "edit"
    /\ reply = "NotOwner"
    /\ SubSeq(update.args, 4, Len(update.args)) = TypedCategory
    /\ \E u \in Users : Drafts(u) # {}

\* the row of the sheet update_expense locates for an id (0: none)
LocatedRow(expense_id) ==
    IF find_by_id(sheet, expense_id) = 0 THEN 0 ELSE find_by_id(sheet, expense_id) + 1

\* the step keeps every row, changes no id, owner, owner label or timestamp,
\* and leaves every row but the located one as it is
EditFrame(expense_id) ==
    /\ Len(sheet') = Len(sheet)
    /\ \A r \in 1..Len(sheet) :
          /\ \A c \in { 1, 2, 3, 7 } : sheet'[r][c] = sheet[r][c]
          /\ r # LocatedRow(expense_id) => sheet'[r] = sheet[r]

\* C3: an edit, applied directly or by the category selection that completes
\* a staged edit, removes no record, keeps id, owner_id, owner_label and
\* created_at of every record, and changes amount, note and category of the
\* located record only.
C3_EditFrame ==
    [][ /\ (update'.op = "edit" /\ sheet' # sheet) => EditFrame(update'.args[1])
        /\ ( /\ update'.op = "category"
             /\ Drafts(update'.u) = { "pending_edit" }
             /\ sheet' # sheet )
           => EditFrame(user_data[update'.u]["pending_edit"].expense_id) ]_vars

\* a staged edit of the second of two records was committed: the record of
\* id 2 carries the edit and the selected category, the record of id 1 does not
C3_Witness ==
    /\ update.op = "category"
    /\ reply = "Updated"
    /\ Len(sheet) = 4
    /\ sheet[3][1] = "1" /\ sheet[3][4] = float_str(10)
    /\ sheet[4][1] = "2" /\ sheet[4][4] = float_str(20)
    /\ sheet[4][6] = update.category

\* C4: starting a draft discards the draft the user held: after an add or an
\* edit without category the user holds the new draft and no other, so that
\* the next category selection can only commit the new one.
C4_NewDraftDiscardsPrevious ==
    [][ /\ (update'.op = "add" /\ reply' = "SelectCategory")
               => DraftsAfter(update'.u) = { "pending_expense" }
        /\ (update'.op = "edit" /\ reply' = "SelectCategory")
               => DraftsAfter(update'.u) = { "pending_edit" } ]_vars

\* C5: a user holds at most one draft, a new expense or an edit, never both.
C5_AtMostOneDraft == \A u \in Users : Cardinality(Drafts(u)) <= 1

\* the step appends one row with these cells for the user
AddedRow(u, amount, note, category) ==
    /\ Len(sheet') = Len(sheet) + 1
    /\ SubSeq(sheet', 1, Len(sheet)) = sheet
    /\ sheet'[Len(sheet')][2] = str(u)
    /\ sheet'[Len(sheet')][4] = float_str(amount)
    /\ sheet'[Len(sheet')][5] = note
    /\ sheet'[Len(sheet')][6] = category

\* the labels whose words end the arguments of an add, after the amount and
\* at least one word of note
CarriedCategories(args) ==
    { i \in 1..Len(CategoryWords) :
        /\ Len(args) >= 2 + Len(CategoryWords[i])
        /\ SubSeq(args, Len(args) - Len(CategoryWords[i]) + 1, Len(args)) = CategoryWords[i] }

\* C6: an add that carries a category appends one record with the amount, the
\* note and the category for the caller and touches no pending state; an add
\* that carries none appends nothing and leaves the caller with a new-expense
\* draft of the amount and the note; a smart add appends what was parsed.
C6_AddDispatch ==
    [][ /\ ( /\ update'.op = "add"
             /\ update'.f = "none"
             /\ Len(update'.args) >= 2
             /\ is_float(update'.args[1]) )
           => LET u == update'.u
                  args == update'.args
              IN  IF CarriedCategories(args) # {}
                  THEN LET i == CHOOSE i \in CarriedCategories(args) : TRUE
                       IN  /\ AddedRow(u, float(args[1]),
                                       join(SubSeq(args, 2, Len(args) - Len(CategoryWords[i]))),
                                       EXPENSE_CATEGORIES[i])
                           /\ user_data' = user_data
                  ELSE /\ sheet' = sheet
                       /\ user_data'[u]["pending_expense"] =
                              [amount |-> float(args[1]), note |-> add_note(args)]
                       /\ DraftsAfter(u) = Drafts(u) \cup { "pending_expense" }
                       /\ \A k \in Drafts(u) \ { "pending_expense" } :
                              user_data'[u][k] = user_data[u][k]
                       /\ \A v \in Users \ { u } : user_data'[v] = user_data[v]
                       /\ reply' = "SelectCategory"
        /\ ( /\ update'.op = "addsmart"
             /\ update'.f = "none"
             /\ update'.has_args
             /\ update'.resp.kind = "object"
             /\ is_float(update'.resp.amount) )
           => /\ AddedRow(update'.u, float(update'.resp.amount), update'.resp.note,
                          update'.resp.category)
              /\ user_data' = user_data
              /\ reply' = "Added" ]_vars

\* C7: a category selection by a user who holds a draft does one store write
\* and leaves the user idle: a new-expense draft is appended with the chosen
\* category, an edit draft is written to the record of its id.
C7_SelectionCommitsAndIdles ==
    [][ ( /\ update'.op = "category"
          /\ update'.f = "none"
          /\ Drafts(update'.u) # {} )
        => LET u == update'.u
               c == update'.category
           IN  /\ DraftsAfter(u) = {}
               /\ IF "pending_expense" \in Drafts(u)
                  THEN AddedRow(u, user_data[u]["pending_expense"].amount,
                                user_data[u]["pending_expense"].note, c)
                  ELSE /\ EditFrame(user_data[u]["pending_edit"].expense_id)
                       /\ LET r == LocatedRow(user_data[u]["pending_edit"].expense_id)
                          IN  r # 0 =>
                                /\ sheet'[r][4] = float_str(user_data[u]["pending_edit"].amount)
                                /\ sheet'[r][5] = user_data[u]["pending_edit"].note
                                /\ sheet'[r][6] = c ]_vars

\* C8: after a category selection by a user who holds a draft, the draft the
\* selection took up is gone, whatever the store call or the reply did.
C8_ClearedWhateverTheOutcome ==
    [][ ( /\ update'.op = "category"
          /\ Drafts(update'.u) # {} )
        => IF "pending_expense" \in Drafts(update'.u)
           THEN "pending_expense" \notin DraftsAfter(update'.u)
           ELSE "pending_edit" \notin DraftsAfter(update'.u) ]_vars

\* C9: a category selection by a user without a draft changes neither the
\* sheet nor anybody's pending state and is answered "nothing pending".
C9_IdleSelectionIsNoOp ==
    [][ ( /\ update'.op = "category"
          /\ Drafts(update'.u) = {} )
        => /\ reply' = "NoPending"
           /\ sheet' = sheet
           /\ user_data' = user_data ]_vars

\* the answer was given while the other user holds a draft and the sheet holds records
C9_Witness ==
    /\ update.op = "category"
    /\ reply = "NoPending"
    /\ \E u \in Users : Drafts(u) # {}
    /\ DataRows >= 1

\* C10: the category of every expense record, whichever handler wrote it, is
\* one of the twelve labels.
C10_CategoriesInSet == \A r \in ExpenseRows : sheet[r][6] \in CategorySet

\* C11: the sheet has exactly one header row, its first row: no header row is
\* written a second time, whatever startups and operations have run.
C11_SingleHeaderRow ==
    /\ sheet[1] = headers
    /\ \A r \in 2..Len(sheet) : sheet[r] # headers

\* the fixed messages of the parser's ValueError
SafeMessages == { "ParseFailed", "Unexpected" }

\* C12: a smart add whose parse fails (malformed JSON, missing key, failure of
\* the call or of the conversion) answers one of the fixed messages and
\* changes neither the sheet nor any pending state.
C12_ParseFailureIsSafe ==
    [][ ( /\ update'.op = "addsmart"
          /\ update'.has_args
          /\ ~parse_expense_with_gemini(update'.resp).ok )
        => /\ reply' \in SafeMessages
           /\ sheet' = sheet
           /\ user_data' = user_data ]_vars

\* C13: a handler run for one user leaves the pending state of every other
\* user as it is, and a category selection commits the caller's own draft:
\* a new expense is appended with the caller as owner, an edit is written to
\* a record of the caller.
C13_OwnersIndependent ==
    [][ /\ update'.op # "none"
           => \A v \in Users \ { update'.u } : user_data'[v] = user_data[v]
        /\ ( /\ update'.op = "category"
             /\ update'.f = "none"
             /\ "pending_expense" \in Drafts(update'.u) )
           => AddedRow(update'.u, user_data[update'.u]["pending_expense"].amount,
                       user_data[update'.u]["pending_expense"].note, update'.category)
        /\ ( /\ update'.op = "category"
             /\ update'.f = "none"
             /\ Drafts(update'.u) = { "pending_edit" } )
           => LET r == LocatedRow(user_data[update'.u]["pending_edit"].expense_id)
              IN  /\ r # 0
                  /\ sheet[r][2] = str(update'.u)
                  /\ sheet'[r][5] = user_data[update'.u]["pending_edit"].note ]_vars

\* a user committed a new expense of their own while the other user's draft
\* of another note is waiting
C13_Witness ==
    /\ update.op = "category"
    /\ reply = "Added"
    /\ sheet[Len(sheet)][2] = str(update.u)
    /\ \E v \in Users \ { update.u } :
          /\ "pending_expense" \in Drafts(v)
          /\ user_data[v]["pending_expense"].note # sheet[Len(sheet)][5]

\* the reply lines of the rows from row r on whose owner is u, in store order
RECURSIVE OwnedLinesFrom(_, _)
OwnedLinesFrom(u, r) ==
    IF r > Len(sheet) THEN << >>
    ELSE (IF sheet[r][2] = str(u)
          THEN << << sheet[r][1], sheet[r][4], sheet[r][5], sheet[r][6] >> >>
          ELSE << >>) \o OwnedLinesFrom(u, r + 1)

\* C14: a list without filter answers with exactly the caller's records, in
\* store order, and changes neither the sheet nor any pending state.
C14_ListReturnsOwnRecords ==
    [][ (update'.op = "list" /\ update'.args = << >>)
        => /\ IF OwnedLinesFrom(update'.u, 2) = << >>
              THEN reply' = [kind |-> "NoExpensesYet"]
              ELSE reply' = [kind |-> "Expenses", items |-> OwnedLinesFrom(update'.u, 2)]
           /\ sheet' = sheet
           /\ user_data' = user_data ]_vars

\* a list was answered with one record while the sheet holds a record of each
\* user and a draft is waiting
C14_Witness ==
    /\ update.op = "list"
    /\ update.args = << >>
    /\ reply.kind = "Expenses"
    /\ Len(reply.items) = 1
    /\ Len(sheet) = 3
    /\ sheet[2][2] # sheet[3][2]
    /\ \E v \in Users : Drafts(v) # {}

\* the reply lines of the caller's rows whose timestamp passes a test, in
\* store order
LinesWhere(u, Keep(_)) ==
    LET rows == SelectSeq(Tail(sheet), LAMBDA row : row[2] = str(u) /\ Keep(strptime(row[7])))
    IN  [ i \in 1..Len(rows) |-> << rows[i][1], rows[i][4], rows[i][5], rows[i][6] >> ]

\* the answer of /list with a filter that selects these lines
ListAnswer(time_filter, lines) ==
    IF lines = << >> THEN [kind |-> "NoExpensesFor", time_filter |-> time_filter]
    ELSE [kind |-> "ExpensesFor", time_filter |-> time_filter, items |-> lines]

\* the ordinal of the Monday of the week the day lies in: the last day up to
\* it that is a Monday (2024-01-01, ordinal 738886, is one)
MondayOfWeek(t) ==
    CHOOSE d \in (toordinal(t) - 6) .. toordinal(t) : (d - toordinal(datetime(2024, 1, 1, 0, 0, 0))) % 7 = 0

\* C15: a 'week' list answers with exactly the caller's records dated on or
\* after the Monday of the current week: the Sunday before is out, at any
\* time of day, and that Monday is in from 00:00:00.
C15_WeekFromMonday ==
    [][ ( /\ update'.op = "list"
          /\ update'.args = << << "week" >> >> )
        => reply' = ListAnswer(<< "week" >>,
                               LinesWhere(update'.u,
                                          LAMBDA ts : toordinal(ts) >= MondayOfWeek(now))) ]_vars

\* on the Tuesday a 'week' list left out the caller's record of Sunday
\* 23:59:59 and returned the one of Monday 00:00:00
C15_Witness ==
    /\ update.op = "list"
    /\ update.args = << << "week" >> >>
    /\ now.day = 2
    /\ Len(sheet) = 3
    /\ sheet[2][2] = str(update.u) /\ sheet[2][7] = "2023-12-31 23:59:59"
    /\ sheet[3][2] = str(update.u) /\ sheet[3][7] = "2024-01-01 00:00:00"
    /\ reply.kind = "ExpensesFor"
    /\ Len(reply.items) = 1

\* C16: a 'today' list answers with exactly the caller's records whose date
\* is the current date: a record stamped at 00:00:00 of a day is in on that
\* day, at any time, and out on the days next to it.
C16_TodayIsSameDate ==
    [][ ( /\ update'.op = "list"
          /\ update'.args = << << "today" >> >> )
        => reply' = ListAnswer(<< "today" >>,
                               LinesWhere(update'.u,
                                          LAMBDA ts : /\ ts.year = now.year
                                                      /\ ts.month = now.month
                                                      /\ ts.day = now.day)) ]_vars

\* late on the Tuesday a 'today' list returned the caller's record of Tuesday
\* 00:00:00 and left out the one of Monday 00:00:00
C16_Witness ==
    /\ update.op = "list"
    /\ update.args = << << "today" >> >>
    /\ now = datetime(2024, 1, 2, 23, 59, 59)
    /\ Len(sheet) = 3
    /\ sheet[2][2] = str(update.u) /\ sheet[2][7] = "2024-01-01 00:00:00"
    /\ sheet[3][2] = str(update.u) /\ sheet[3][7] = "2024-01-02 00:00:00"
    /\ reply.kind = "ExpensesFor"
    /\ Len(reply.items) = 1

\* the filter is written like a date or a month (it contains a slash) and
\* is none: it does not parse as DD/MM/YYYY or MM/YYYY
MalformedDateOrMonth(time_filter) ==
    /\ Len(time_filter) >= 2
    /\ ~strptime_date(time_filter).ok
    /\ ~strptime_month(time_filter).ok

\* C17: a list or a total with a malformed date or month is answered like one
\* whose filter matches no record, with no expenses and a sum of zero, and
\* changes neither the sheet nor any pending state.
C17_MalformedFilterIsEmpty ==
    [][ ( /\ update'.op \in { "list", "total" }
          /\ Len(update'.args) = 1
          /\ MalformedDateOrMonth(update'.args[1]) )
        => /\ reply' = IF update'.op = "list"
                       THEN [kind |-> "NoExpensesFor", time_filter |-> update'.args[1]]
                       ELSE [kind |-> "TotalFor", time_filter |-> update'.args[1],
                             total_amount |-> 0]
           /\ sheet' = sheet
           /\ user_data' = user_data ]_vars

\* the same, for the malformed filters of two or three parts only
C17_TwoOrThreeParts ==
    [][ ( /\ update'.op \in { "list", "total" }
          /\ Len(update'.args) = 1
          /\ MalformedDateOrMonth(update'.args[1])
          /\ Len(update'.args[1]) <= 3 )
        => /\ reply' = IF update'.op = "list"
                       THEN [kind |-> "NoExpensesFor", time_filter |-> update'.args[1]]
                       ELSE [kind |-> "TotalFor", time_filter |-> update'.args[1],
                             total_amount |-> 0]
           /\ sheet' = sheet
           /\ user_data' = user_data ]_vars

\* two adds whose scans read the same sheet content and which have both appended
BothAppended(v, w) ==
    /\ v # w
    /\ calls[v].op = "added"
    /\ calls[w].op = "added"
    /\ calls[v].records = calls[w].records

\* C18: two adds interleaved as scan, scan, append, append (both scans read the
\* same sheet content, both have appended) leave two distinct rows of the sheet
\* that carry the same id.
C18_InterleavedAddsShareId ==
    \A v, w \in Users :
        BothAppended(v, w) =>
            /\ calls[v].row # calls[w].row
            /\ sheet[calls[v].row][1] = sheet[calls[w].row][1]

\* C18 witness: both adds scanned the sheet holding the header twice, where a
\* later scan would have returned another id, and both have appended.
C18_Witness ==
    /\ BothAppended(7, 8)
    /\ Len(calls[7].records) = 1
    /\ sheet[calls[7].row][1] = "1"
    /\ get_next_id(sheet) = 2

\* the step is one update_cell call of the update of user w
WriteStep(w) == calls[w].op = "update" /\ calls'[w] # calls[w]

\* the value the update of user w writes into a column
written_value(w, column) ==
    IF column = 4 THEN float_str(race_amount(w))
    ELSE IF column = 5 THEN race_note(w)
    ELSE race_category(w)

\* since the scan of user w another row was appended to the sheet or a row
\* other than the located one was written
ChangedSinceScan(w) ==
    \E r \in 2..Len(sheet) :
        /\ r # calls[w].idx
        /\ \/ r > Len(calls[w].records) + 1
           \/ get_all_records(sheet)[r - 1] # calls[w].records[r - 1]

\* C19 as stated: a write of update made after a concurrent append or update
\* since its scan finds the row positions shifted, so the row it writes is
\* not the one holding the target id.
C19_ConcurrentChangeShiftsRows ==
    [][ \A w \in Users :
            (WriteStep(w) /\ ChangedSinceScan(w)) =>
                sheet[calls[w].idx][1] # calls[w].expense_id ]_vars

\* C19 amended: append_row adds a row at the end and update_cell writes in
\* place, so row positions never shift: every write of update, whatever was
\* appended or written since its scan, changes one cell of a row that holds
\* the target id and nothing else; the sheet keeps its length and every id.
C19_WriteLandsOnTargetRow ==
    [][ \A w \in Users :
            WriteStep(w) =>
                \E r \in 2..Len(sheet) :
                    /\ sheet[r][1] = calls[w].expense_id
                    /\ sheet' = [ sheet EXCEPT
                                    ![r][calls[w].column] =
                                        written_value(w, calls[w].column) ] ]_vars

\* C19 witness: an update of id 1 has made its last write after another run
\* appended a row with another id, and the located row holds the new values.
C19_Witness ==
    \E w \in Users :
        /\ calls[w].op = "updated"
        /\ calls[w].sheet_grew
        /\ calls[w].expense_id = "1"
        /\ \E r \in 2..Len(sheet) : sheet[r][1] = "2"
        /\ sheet[calls[w].idx][1] = "1"
        /\ sheet[calls[w].idx][4] = float_str(race_amount(w))
        /\ sheet[calls[w].idx][5] = race_note(w)
        /\ sheet[calls[w].idx][6] = race_category(w)

\* the expense rows of the sheet that carry the id and belong to the user
OwnRowsWithId(u, expense_id) ==
    { r \in ExpenseRows : sheet[r][1] = expense_id /\ sheet[r][2] = str(u) }

\* C20: for every record r of the sheet, a well-formed edit of r's id sent by
\* r's owner (no store failure) is answered neither with the not-found nor
\* with the authorization error, the row it locates is r, and whatever it
\* changes in the sheet it changes in r.
C20_OwnerCanEditOwnRecord ==
    [][ ( /\ update'.op = "edit"
          /\ update'.f = "none"
          /\ Len(update'.args) >= 3
          /\ is_float(update'.args[2]) )
        => \A r \in OwnRowsWithId(update'.u, update'.args[1]) :
              /\ reply' \notin { "NotFound", "NotOwner" }
              /\ LocatedRow(update'.args[1]) = r
              /\ \A q \in 1..Len(sheet) : q # r => sheet'[q] = sheet[q] ]_vars

\* the rows present before the step whose amount, note or category the step changes
MutatedRows ==
    { r \in 1..Len(sheet) : \E c \in { 4, 5, 6 } : sheet'[r][c] # sheet[r][c] }

\* C21: whatever was added, staged, committed or restarted before, a step that
\* changes amount, note or category of an existing row is an edit or a
\* category selection of the user whose id is in the row's user_id cell; the
\* commit of a staged edit, which checks no owner, is included.
C21_OnlyOwnerMutates ==
    [][ \A r \in MutatedRows :
            /\ update'.op \in { "edit", "category" }
            /\ sheet[r][2] = str(update'.u) ]_vars

\* C21 witness: user 8 committed a staged edit by a category selection while
\* the sheet also holds a record of user 7; the row written is user 8's and
\* carries the edit, the record of user 7 is as it was added.
C21_Witness ==
    /\ update.op = "category"
    /\ update.u = 8
    /\ reply = "Updated"
    /\ \E r \in ExpenseRows :
          /\ sheet[r][2] = "8"
          /\ sheet[r][4] = float_str(20)
          /\ sheet[r][5] = "taxi"
          /\ sheet[r][6] = EXPENSE_CATEGORIES[2]
          /\ update.category = EXPENSE_CATEGORIES[2]
    /\ \E q \in ExpenseRows :
          /\ sheet[q][2] = "7"
          /\ sheet[q][4] = float_str(10)
          /\ sheet[q][5] = "lunch"

\* the tokens of a command from position k on, joined by single spaces
TokensFrom(args, k) == join(SubSeq(args, k, Len(args)))

\* C22: when the last token of /add or /edit is not a member of the category
\* set, the note of the draft the command stages is made of all tokens after
\* the amount, in order, whatever their number.
C22_NoteKeepsEveryToken ==
    [][ /\ ( /\ update'.op = "add"
             /\ reply' = "SelectCategory"
             /\ update'.args[Len(update'.args)] \notin CategorySet )
           => user_data'[update'.u]["pending_expense"].note = TokensFrom(update'.args, 2)
        /\ ( /\ update'.op = "edit"
             /\ reply' = "SelectCategory"
             /\ update'.args[Len(update'.args)] \notin CategorySet )
           => user_data'[update'.u]["pending_edit"].note = TokensFrom(update'.args, 3) ]_vars
====
